---- MODULE Spec2Model ----
(***************************************************************************)
(* Parallel Jacobi solver for the Poisson equation (MPI).                  *)
(*                                                                         *)
(* Two programs are modelled:                                              *)
(*   "strip" : 1-D strip decomposition, src/unnamed/part_000               *)
(*   "cart"  : 2-D Cartesian decomposition,                                *)
(*             src/Codigos_usando_MPI/MPI_clase2/poisson_top_cartesiana.c  *)
(*                                                                         *)
(* Every MPI process (worker) is a sequential program; pc[w] is its        *)
(* position.  Grids are flat row-major arrays exactly as in the C code,    *)
(* indexed i*ld+j.  Values are exact fixed-point numbers: the integer v    *)
(* stands for the real v * (h*h*f) / Scale.  Because one Jacobi step       *)
(* divides by 4 and at most maxit steps are taken, Scale = 4^maxit keeps   *)
(* every division exact.                                                   *)
(*                                                                         *)
(* The iteration cap of the programs (100 and 10000) is scaled down to     *)
(* MaxIt so that the state space is finite and the integers stay small.    *)
(*                                                                         *)
(* After the loop pc[w] stays "collect" and gpc[w] is the position of w in *)
(* the collection and output of the result.  The argument extraction of   *)
(* main is a specification of its own, SpecArgs; the solver is run with    *)
(* small non-negative arguments.                                           *)
(***************************************************************************)
EXTENDS Integers, Sequences, FiniteSets, TLC

\* ---------------------------------------------------------------- bounds
MaxIt   == 5       \* iteration cap used for maxit (scaled down)
MaxRows == 2       \* largest number of local rows per worker
MaxCols == 2       \* largest number of local columns per worker
MaxBuffered == 4   \* buffered sends are explored up to this many workers
MaxArg  == 3       \* arguments from -MaxArg to MaxArg are extracted

\* ---------------------------------------------------- program constants
MPI_PROC_NULL == -1
TolRatio == 150    \* (h*h*f)/tol = (0.01*0.01*1.5)/1e-6

DefaultN == 40         \* int N=40 and the fallback N = 40
DefaultMStrip == 50    \* M=50 in the strip program
DefaultMCart == 40     \* M=40 in the Cartesian program
FallbackM == 1         \* the fallback M = 1

Sizes == {1, 2, 3, 4, 8}
Variants == {"strip", "cart"}

VARIABLES
  variant,   \* which program runs
  sync,      \* TRUE: MPI_Send is a rendezvous; FALSE: MPI_Send buffers
  size,      \* number of MPI processes
  argc,      \* argc of main
  arg1, arg2,\* atoi(argv[1]), atoi(argv[2]); 0 when the argument is absent
  N, M,      \* grid dimensions of main (after argument extraction)
  n, m,      \* local extents handed to jacobi_poisson
  dims,      \* dims[1], dims[2]: the worker grid of the Cartesian program
  calls,     \* calls[w]: the MPI calls of one halo exchange of w, in order
  pc,        \* pc[w]: position of worker w
  op,        \* op[w]: index of the next call of the halo exchange
  chan,      \* chan[<<s,d>>]: messages sent by s to d and not yet received
  x, b, t,   \* x[w], b[w], t[w]: the three local grids of worker w
  k, conv,   \* k[w], conv[w]: loop counter and convergence flag
  local_s,   \* local_s[w]
  total_s,   \* total_s[w]
  red,       \* red[it][w]: contribution of w to the Allreduce of iteration it
  sent,      \* sent[w][v]: number of halo sends of w to v that returned
  rcvd,      \* rcvd[w][v]: number of halo receives of w from v that returned
  gpc,       \* gpc[w]: position of w in the collection of the result
  gnext,     \* the variable next of rank 0 in the collection loop
  sol,       \* the array sol of rank 0
  printed    \* printed[<<i, j>>]: the grid written to the output by rank 0

vars == <<variant, sync, size, argc, arg1, arg2, N, M, n, m, dims, calls,
          pc, op, chan,
          x, b, t, k, conv, local_s, total_s, red, sent, rcvd,
          gpc, gnext, sol, printed>>

config == <<variant, sync, size, argc, arg1, arg2, N, M, n, m, dims, calls>>
loop == <<pc, op, x, b, t, k, conv, local_s, total_s, red, sent, rcvd>>
result == <<gpc, gnext, sol, printed>>

Workers == 0 .. (size - 1)
NoVal == -1

\* ------------------------------------------------------------ arithmetic
RECURSIVE Pow(_, _)
Pow(a, e) == IF e = 0 THEN 1 ELSE a * Pow(a, e - 1)

maxit == MaxIt
Scale == Pow(4, maxit)

RECURSIVE SumTo(_, _)
\* f[0] + ... + f[c-1]
SumTo(f, c) == IF c = 0 THEN 0 ELSE f[c - 1] + SumTo(f, c - 1)

\* a grid of nn x mm unknowns is a flat array of (nn+2)*(mm+2) cells with
\* leading dimension mm+2; cell (i,j) is at index i*(mm+2)+j
CellsOf(nn, mm) == 0 .. ((nn + 2) * (mm + 2) - 1)
InteriorOf(nn, mm) == {i * (mm + 2) + j : i \in 1 .. nn, j \in 1 .. mm}
IsInterior(nn, mm, idx) ==
  /\ idx \div (mm + 2) >= 1 /\ idx \div (mm + 2) <= nn
  /\ idx % (mm + 2) >= 1 /\ idx % (mm + 2) <= mm

\* the local grids of the workers
ld == m + 2
Cells == CellsOf(n, m)
Interior == InteriorOf(n, m)

\* -------------------------------------------------------- decomposition
\* MPI_Dims_create(size, 2, dims): dims[0] >= dims[1], as close as possible
DimsCreate(sz) ==
  LET d1 == CHOOSE d \in 1 .. sz :
              /\ sz % d = 0 /\ d * d <= sz
              /\ \A e \in 1 .. sz : (sz % e = 0 /\ e * e <= sz) => e <= d
  IN  <<sz \div d1, d1>>

\* MPI_Cart_coords for a non-periodic 2-D grid, row-major rank order
CartCoords(rank) == <<rank \div dims[2], rank % dims[2]>>

\* MPI_Cart_shift(comm, dir, 1, &source, &dest)
CartShift(rank, dir, disp) ==
  LET c == CartCoords(rank)
      c0 == IF dir = 0 THEN c[1] + disp ELSE c[1]
      c1 == IF dir = 1 THEN c[2] + disp ELSE c[2]
  IN  IF c0 < 0 \/ c0 >= dims[1] \/ c1 < 0 \/ c1 >= dims[2]
      THEN MPI_PROC_NULL
      ELSE c0 * dims[2] + c1

\* ---------------------------------------------------------- halo exchange
\* One MPI call of the exchange: kind "S" (MPI_Send) or "R" (MPI_Recv),
\* the peer rank, first element, element count and stride of the buffer.
Call(kind, peer, off, cnt, stride) ==
  [kind |-> kind, peer |-> peer, off |-> off, cnt |-> cnt, stride |-> stride]

\* StripOps with a slip: rank 0 sends its first row instead of its last
StripOpsSendsFirstRow(rank) ==
  LET prev == IF rank = 0 THEN MPI_PROC_NULL ELSE rank - 1
      next == IF rank = size - 1 THEN MPI_PROC_NULL ELSE rank + 1
  IN  IF rank = 0 THEN
        << Call("S", next, 1 * ld, ld, 1),
           Call("R", next, (n + 1) * ld, ld, 1) >>
      ELSE IF rank = size - 1 THEN
        << Call("R", prev, 0 * ld, ld, 1),
           Call("S", prev, 1 * ld, ld, 1) >>
      ELSE IF rank % 2 = 0 THEN
        << Call("S", next, n * ld, ld, 1),
           Call("S", prev, 1 * ld, ld, 1),
           Call("R", prev, 0 * ld, ld, 1),
           Call("R", next, (n + 1) * ld, ld, 1) >>
      ELSE
        << Call("R", prev, 0 * ld, ld, 1),
           Call("R", next, (n + 1) * ld, ld, 1),
           Call("S", next, n * ld, ld, 1),
           Call("S", prev, 1 * ld, ld, 1) >>

\* StripOps with a slip: the last rank sends before it receives
StripOpsLastSendsFirst(rank) ==
  LET prev == IF rank = 0 THEN MPI_PROC_NULL ELSE rank - 1
      next == IF rank = size - 1 THEN MPI_PROC_NULL ELSE rank + 1
  IN  IF rank = 0 THEN
        << Call("S", next, n * ld, ld, 1),
           Call("R", next, (n + 1) * ld, ld, 1) >>
      ELSE IF rank = size - 1 THEN
        << Call("S", prev, 1 * ld, ld, 1),
           Call("R", prev, 0 * ld, ld, 1) >>
      ELSE IF rank % 2 = 0 THEN
        << Call("S", next, n * ld, ld, 1),
           Call("S", prev, 1 * ld, ld, 1),
           Call("R", prev, 0 * ld, ld, 1),
           Call("R", next, (n + 1) * ld, ld, 1) >>
      ELSE
        << Call("R", prev, 0 * ld, ld, 1),
           Call("R", next, (n + 1) * ld, ld, 1),
           Call("S", next, n * ld, ld, 1),
           Call("S", prev, 1 * ld, ld, 1) >>

\* StripOps with a slip: the last rank only receives
StripOpsLastNoSend(rank) ==
  LET prev == IF rank = 0 THEN MPI_PROC_NULL ELSE rank - 1
      next == IF rank = size - 1 THEN MPI_PROC_NULL ELSE rank + 1
  IN  IF rank = 0 THEN
        << Call("S", next, n * ld, ld, 1),
           Call("R", next, (n + 1) * ld, ld, 1) >>
      ELSE IF rank = size - 1 THEN
        << Call("R", prev, 0 * ld, ld, 1) >>
      ELSE IF rank % 2 = 0 THEN
        << Call("S", next, n * ld, ld, 1),
           Call("S", prev, 1 * ld, ld, 1),
           Call("R", prev, 0 * ld, ld, 1),
           Call("R", next, (n + 1) * ld, ld, 1) >>
      ELSE
        << Call("R", prev, 0 * ld, ld, 1),
           Call("R", next, (n + 1) * ld, ld, 1),
           Call("S", next, n * ld, ld, 1),
           Call("S", prev, 1 * ld, ld, 1) >>

\* StripOps with a slip: the last rank receives into its first row
StripOpsLastRecvRow1(rank) ==
  LET prev == IF rank = 0 THEN MPI_PROC_NULL ELSE rank - 1
      next == IF rank = size - 1 THEN MPI_PROC_NULL ELSE rank + 1
  IN  IF rank = 0 THEN
        << Call("S", next, n * ld, ld, 1),
           Call("R", next, (n + 1) * ld, ld, 1) >>
      ELSE IF rank = size - 1 THEN
        << Call("R", prev, 1 * ld, ld, 1),
           Call("S", prev, 1 * ld, ld, 1) >>
      ELSE IF rank % 2 = 0 THEN
        << Call("S", next, n * ld, ld, 1),
           Call("S", prev, 1 * ld, ld, 1),
           Call("R", prev, 0 * ld, ld, 1),
           Call("R", next, (n + 1) * ld, ld, 1) >>
      ELSE
        << Call("R", prev, 0 * ld, ld, 1),
           Call("R", next, (n + 1) * ld, ld, 1),
           Call("S", next, n * ld, ld, 1),
           Call("S", prev, 1 * ld, ld, 1) >>

\* StripOps with a slip: rank 0 receives the row of its lower neighbour in
\* ghost row 0, the side where it has no neighbour
StripOpsFirstRecvRow0(rank) ==
  LET prev == IF rank = 0 THEN MPI_PROC_NULL ELSE rank - 1
      next == IF rank = size - 1 THEN MPI_PROC_NULL ELSE rank + 1
  IN  IF rank = 0 THEN
        << Call("S", next, n * ld, ld, 1),
           Call("R", next, 0 * ld, ld, 1) >>
      ELSE IF rank = size - 1 THEN
        << Call("R", prev, 0 * ld, ld, 1),
           Call("S", prev, 1 * ld, ld, 1) >>
      ELSE IF rank % 2 = 0 THEN
        << Call("S", next, n * ld, ld, 1),
           Call("S", prev, 1 * ld, ld, 1),
           Call("R", prev, 0 * ld, ld, 1),
           Call("R", next, (n + 1) * ld, ld, 1) >>
      ELSE
        << Call("R", prev, 0 * ld, ld, 1),
           Call("R", next, (n + 1) * ld, ld, 1),
           Call("S", next, n * ld, ld, 1),
           Call("S", prev, 1 * ld, ld, 1) >>

\* StripOps with a slip: an even interior rank exchanges with its next
\* neighbour first, then with its previous one
StripOpsEvenPairwise(rank) ==
  LET prev == IF rank = 0 THEN MPI_PROC_NULL ELSE rank - 1
      next == IF rank = size - 1 THEN MPI_PROC_NULL ELSE rank + 1
  IN  IF rank = 0 THEN
        << Call("S", next, n * ld, ld, 1),
           Call("R", next, (n + 1) * ld, ld, 1) >>
      ELSE IF rank = size - 1 THEN
        << Call("R", prev, 0 * ld, ld, 1),
           Call("S", prev, 1 * ld, ld, 1) >>
      ELSE IF rank % 2 = 0 THEN
        << Call("S", next, n * ld, ld, 1),
           Call("R", next, (n + 1) * ld, ld, 1),
           Call("S", prev, 1 * ld, ld, 1),
           Call("R", prev, 0 * ld, ld, 1) >>
      ELSE
        << Call("R", prev, 0 * ld, ld, 1),
           Call("R", next, (n + 1) * ld, ld, 1),
           Call("S", next, n * ld, ld, 1),
           Call("S", prev, 1 * ld, ld, 1) >>

\* StripOps with a slip: rank 0 does not receive the row of its neighbour
StripOpsFirstNoRecv(rank) ==
  LET prev == IF rank = 0 THEN MPI_PROC_NULL ELSE rank - 1
      next == IF rank = size - 1 THEN MPI_PROC_NULL ELSE rank + 1
  IN  IF rank = 0 THEN
        << Call("S", next, n * ld, ld, 1) >>
      ELSE IF rank = size - 1 THEN
        << Call("R", prev, 0 * ld, ld, 1),
           Call("S", prev, 1 * ld, ld, 1) >>
      ELSE IF rank % 2 = 0 THEN
        << Call("S", next, n * ld, ld, 1),
           Call("S", prev, 1 * ld, ld, 1),
           Call("R", prev, 0 * ld, ld, 1),
           Call("R", next, (n + 1) * ld, ld, 1) >>
      ELSE
        << Call("R", prev, 0 * ld, ld, 1),
           Call("R", next, (n + 1) * ld, ld, 1),
           Call("S", next, n * ld, ld, 1),
           Call("S", prev, 1 * ld, ld, 1) >>

\* jacobi_step of the strip program, the calls before the stencil loop
StripOps(rank) ==
  LET prev == IF rank = 0 THEN MPI_PROC_NULL ELSE rank - 1
      next == IF rank = size - 1 THEN MPI_PROC_NULL ELSE rank + 1
  IN  IF rank = 0 THEN
        << Call("S", next, n * ld, ld, 1),
           Call("R", next, (n + 1) * ld, ld, 1) >>
      ELSE IF rank = size - 1 THEN
        << Call("R", prev, 0 * ld, ld, 1),
           Call("S", prev, 1 * ld, ld, 1) >>
      ELSE IF rank % 2 = 0 THEN
        << Call("S", next, n * ld, ld, 1),
           Call("S", prev, 1 * ld, ld, 1),
           Call("R", prev, 0 * ld, ld, 1),
           Call("R", next, (n + 1) * ld, ld, 1) >>
      ELSE
        << Call("R", prev, 0 * ld, ld, 1),
           Call("R", next, (n + 1) * ld, ld, 1),
           Call("S", next, n * ld, ld, 1),
           Call("S", prev, 1 * ld, ld, 1) >>

\* CartColOps with a slip: even ranks send both columns before receiving
CartColOpsSendsFirst(rank) ==
  LET LEFT  == CartShift(rank, 0, -1)
      RIGHT == CartShift(rank, 0, 1)
  IN  IF rank % 2 = 0 THEN
        << Call("S", RIGHT, 1 * ld + m, n, ld),
           Call("S", LEFT, 1 * ld + 1, n, ld),
           Call("R", LEFT, 1 * ld + 0, n, ld),
           Call("R", RIGHT, 1 * ld + m + 1, n, ld) >>
      ELSE
        << Call("R", LEFT, 1 * ld + 0, n, ld),
           Call("S", RIGHT, 1 * ld + m, n, ld),
           Call("R", RIGHT, 1 * ld + m + 1, n, ld),
           Call("S", LEFT, 1 * ld + 1, n, ld) >>

\* jacobi_step of the Cartesian program: columns first, then rows
CartColOps(rank) ==
  LET LEFT  == CartShift(rank, 0, -1)
      RIGHT == CartShift(rank, 0, 1)
  IN  IF rank % 2 = 0 THEN
        << Call("S", RIGHT, 1 * ld + m, n, ld),
           Call("R", LEFT, 1 * ld + 0, n, ld),
           Call("S", LEFT, 1 * ld + 1, n, ld),
           Call("R", RIGHT, 1 * ld + m + 1, n, ld) >>
      ELSE
        << Call("R", LEFT, 1 * ld + 0, n, ld),
           Call("S", RIGHT, 1 * ld + m, n, ld),
           Call("R", RIGHT, 1 * ld + m + 1, n, ld),
           Call("S", LEFT, 1 * ld + 1, n, ld) >>

CartRowOps(rank) ==
  LET DOWN == CartShift(rank, 1, -1)
      UP   == CartShift(rank, 1, 1)
  IN  IF rank % 2 = 0 THEN
        << Call("S", DOWN, n * ld + 1, m, 1),
           Call("R", UP, 0 * ld + 1, m, 1),
           Call("S", UP, 1 * ld + 1, m, 1),
           Call("R", DOWN, (n + 1) * ld + 1, m, 1) >>
      ELSE
        << Call("R", UP, 0 * ld + 1, m, 1),
           Call("S", DOWN, n * ld + 1, m, 1),
           Call("R", DOWN, (n + 1) * ld + 1, m, 1),
           Call("S", UP, 1 * ld + 1, m, 1) >>

CartOps(rank) == CartColOps(rank) \o CartRowOps(rank)

Ops(w) == IF variant = "strip" THEN StripOps(w) ELSE CartOps(w)

\* the elements a call with (off, cnt, stride) addresses, in order
Buf(c) == [e \in 0 .. (c.cnt - 1) |-> c.off + e * c.stride]

\* JacobiT with a slip: the neighbour above is read from t
JacobiTReadsT(nn, mm, xx, bb, tt) ==
  [idx \in CellsOf(nn, mm) |->
     IF IsInterior(nn, mm, idx)
     THEN (bb[idx] + xx[idx + (mm + 2)] + tt[idx - (mm + 2)]
                   + xx[idx + 1] + xx[idx - 1]) \div 4
     ELSE tt[idx]]

\* ------------------------------------------------------------ jacobi_step
\* the stencil loop of jacobi_step(N=nn, M=mm, x, b, t): the new t
JacobiT(nn, mm, xx, bb, tt) ==
  [idx \in CellsOf(nn, mm) |->
     IF IsInterior(nn, mm, idx)
     THEN (bb[idx] + xx[idx + (mm + 2)] + xx[idx - (mm + 2)]
                   + xx[idx + 1] + xx[idx - 1]) \div 4
     ELSE tt[idx]]

\* local_s of jacobi_poisson: sum of squared differences over the interior
LocalSum(nn, mm, xx, tt) ==
  LET sq == [idx \in CellsOf(nn, mm) |->
               IF IsInterior(nn, mm, idx)
               THEN (xx[idx] - tt[idx]) * (xx[idx] - tt[idx]) ELSE 0]
  IN  SumTo(sq, (nn + 2) * (mm + 2))

\* MPI_Allreduce(MPI_SUM): the sum of all contributions of one round
ReduceSum(round) == SumTo(round, size)

\* conv = (sqrt(total_s) < tol), on the scaled values:
\* sqrt(T)*(h*h*f)/Scale < tol  <=>  TolRatio^2 * T < Scale^2
Converged(total) == total <= (Scale * Scale - 1) \div (TolRatio * TolRatio)

\* the end-of-iteration copy of t into the interior of x
CopyInterior(nn, mm, xx, tt) ==
  [idx \in CellsOf(nn, mm) |-> IF IsInterior(nn, mm, idx) THEN tt[idx] ELSE xx[idx]]

\* b[i*ld+j] = h*h*f on the interior (one unit, i.e. Scale), 0 elsewhere
InitB(nn, mm) ==
  [idx \in CellsOf(nn, mm) |-> IF IsInterior(nn, mm, idx) THEN Scale ELSE 0]

\* the cells of sol: calloc((N+2)*(M+2)) in the strip program, calloc(N*M)
\* in the Cartesian program
SolCells ==
  IF variant = "strip" THEN 0 .. ((N + 2) * (M + 2) - 1) ELSE 0 .. (N * M - 1)

\* ---------------------------------------------------------- positions
\* A call addressed to MPI_PROC_NULL returns at once and has no effect, so a
\* worker is never seen inside one: FirstCall(cs, i) is the first call at or
\* after index i of the exchange cs that has a peer, 0 if there is none.
FirstCall(cs, i) ==
  LET real == {j \in i .. Len(cs) : cs[j].peer # MPI_PROC_NULL}
  IN  IF real = {} THEN 0 ELSE CHOOSE j \in real : \A j2 \in real : j <= j2

\* position of w when it goes on with call i of the exchange
PcAt(cs, i) == IF FirstCall(cs, i) = 0 THEN "stencil" ELSE "xchg"
OpAt(cs, i) == FirstCall(cs, i)

\* LoopTest with a slip: the cap is tested with <=
LoopTestOffByOne(cs, cv, kk) ==
  IF ~cv /\ kk <= maxit
  THEN [pc |-> PcAt(cs, 1), op |-> OpAt(cs, 1)]
  ELSE [pc |-> "collect", op |-> 0]

\* while (!conv && k<maxit): the position after the loop test
LoopTest(cs, cv, kk) ==
  IF ~cv /\ kk < maxit
  THEN [pc |-> PcAt(cs, 1), op |-> OpAt(cs, 1)]
  ELSE [pc |-> "collect", op |-> 0]

\* ------------------------------------------------------------------ main
\* the state of every worker when it is about to run the first iteration of
\* jacobi_poisson (k = 0, conv = 0), or after the process has trapped
Start(started) ==
  /\ calls = [w \in Workers |-> Ops(w)]
  /\ pc = [w \in Workers |-> IF started THEN LoopTest(Ops(w), FALSE, 0).pc ELSE "crashed"]
  /\ op = [w \in Workers |-> IF started THEN LoopTest(Ops(w), FALSE, 0).op ELSE 0]
  /\ chan = [p \in Workers \X Workers |-> << >>]
  /\ x = [w \in Workers |-> [idx \in Cells |-> 0]]
  /\ b = [w \in Workers |-> InitB(n, m)]
  /\ t = [w \in Workers |-> [idx \in Cells |-> 0]]
  /\ k = [w \in Workers |-> 0]
  /\ conv = [w \in Workers |-> FALSE]
  /\ local_s = [w \in Workers |-> 0]
  /\ total_s = [w \in Workers |-> 0]
  /\ red = [it \in 0 .. (maxit - 1) |-> [w \in Workers |-> NoVal]]
  /\ sent = [w \in Workers |-> [v \in Workers |-> 0]]
  /\ rcvd = [w \in Workers |-> [v \in Workers |-> 0]]
  /\ gpc = [w \in Workers |-> "gather"]
  /\ gnext = 1
  /\ sol = [idx \in SolCells |-> 0]
  /\ printed = << >>

\* ------------------------------------------------ argument extraction
\* the values N and M have at declaration
DeclaredN == DefaultN
DeclaredM == IF variant = "strip" THEN DefaultMStrip ELSE DefaultMCart

\* if (argc > 1) { if ((N = atoi(argv[1])) < 0) N = 40; }
ExtractN(ac, a1, declared) ==
  IF ac > 1 THEN (IF a1 < 0 THEN DefaultN ELSE a1) ELSE declared

\* if (argc > 2) { if ((M = atoi(argv[2])) < 0) M = 1; }
ExtractM(ac, a2, declared) ==
  IF ac > 2 THEN (IF a2 < 0 THEN FallbackM ELSE a2) ELSE declared

\* main of the strip program up to the call of jacobi_poisson, run with
\* two small arguments.  The remainder of N / size is dropped, so the
\* first argument is drawn among the multiples of size.
InitStrip ==
  /\ variant = "strip"
  /\ size \in Sizes
  /\ sync \in (IF size <= MaxBuffered THEN BOOLEAN ELSE {TRUE})
  /\ argc = 3
  /\ arg1 \in {size * q : q \in 0 .. MaxRows}
  /\ arg2 \in 0 .. MaxCols
  /\ N = ExtractN(argc, arg1, DeclaredN)
  /\ M = ExtractM(argc, arg2, DeclaredM)
  /\ n = N \div size
  /\ m = M
  /\ dims = <<0, 0>>
  /\ Start(TRUE)

\* main of the Cartesian program up to the call of jacobi_poisson.  With one
\* process size/2 is 0 and both divisions are undefined: the process traps,
\* or goes on with some values of m and n.
InitCart ==
  /\ variant = "cart"
  /\ size \in Sizes
  /\ sync \in (IF size <= MaxBuffered THEN BOOLEAN ELSE {TRUE})
  /\ dims = DimsCreate(size)
  /\ argc = 3
  /\ IF size \div 2 = 0
     THEN /\ arg1 \in 0 .. MaxRows
          /\ arg2 \in 0 .. MaxCols
          /\ N = ExtractN(argc, arg1, DeclaredN)
          /\ M = ExtractM(argc, arg2, DeclaredM)
          /\ n \in 0 .. MaxRows
          /\ m \in 0 .. MaxCols
          /\ \E started \in BOOLEAN : Start(started)
     ELSE /\ arg1 \in {(size \div 2) * q : q \in 0 .. MaxRows}
          /\ arg2 \in {(size \div 2) * q : q \in 0 .. MaxCols}
          /\ N = ExtractN(argc, arg1, DeclaredN)
          /\ M = ExtractM(argc, arg2, DeclaredM)
          /\ n = N \div (size \div 2)
          /\ m = M \div (size \div 2)
          /\ Start(TRUE)

Init == InitStrip \/ InitCart

\* ------------------------------------------------------- the halo exchange
CurCall(w) == calls[w][op[w]]

\* w is inside the call `kind` of its exchange, addressed to `peer`
AtCall(w, kind, peer) ==
  /\ pc[w] = "xchg"
  /\ CurCall(w).kind = kind
  /\ CurCall(w).peer = peer

\* the message a send call of the halo exchange transmits.  The fields it
\* and kind are not transmitted: they record the iteration and the phase
\* of the sender.
Message(w, c) ==
  [data |-> [e \in 0 .. (c.cnt - 1) |-> x[w][Buf(c)[e]]], it |-> k[w],
   kind |-> "halo"]

\* the grid after a receive call stored the message in its buffer
Store(xx, c, msg) ==
  [idx \in Cells |->
     IF \E e \in 0 .. (c.cnt - 1) : Buf(c)[e] = idx
     THEN msg.data[CHOOSE e \in 0 .. (c.cnt - 1) : Buf(c)[e] = idx]
     ELSE xx[idx]]

\* Rendezvous: the MPI_Send of w blocks until its peer is inside the matching
\* MPI_Recv; then the message is stored at the peer and both calls return.
Rendezvous(w) ==
  /\ sync
  /\ pc[w] = "xchg"
  /\ CurCall(w).kind = "S"
  /\ LET c == CurCall(w)
         d == c.peer
     IN  /\ AtCall(d, "R", w)
         /\ x' = [x EXCEPT ![d] = Store(@, CurCall(d), Message(w, c))]
         /\ pc' = [pc EXCEPT ![w] = PcAt(calls[w], op[w] + 1), ![d] = PcAt(calls[d], op[d] + 1)]
         /\ op' = [op EXCEPT ![w] = OpAt(calls[w], op[w] + 1), ![d] = OpAt(calls[d], op[d] + 1)]
         /\ sent' = [sent EXCEPT ![w][d] = @ + 1]
         /\ rcvd' = [rcvd EXCEPT ![d][w] = @ + 1]
  /\ UNCHANGED <<config, result, chan, b, t, k, conv, local_s, total_s, red>>

\* Buffered MPI_Send: the message is queued for the peer, the call returns
Send(w) ==
  /\ ~sync
  /\ pc[w] = "xchg"
  /\ CurCall(w).kind = "S"
  /\ chan' = [chan EXCEPT ![<<w, CurCall(w).peer>>] = Append(@, Message(w, CurCall(w)))]
  /\ pc' = [pc EXCEPT ![w] = PcAt(calls[w], op[w] + 1)]
  /\ op' = [op EXCEPT ![w] = OpAt(calls[w], op[w] + 1)]
  /\ sent' = [sent EXCEPT ![w][CurCall(w).peer] = @ + 1]
  /\ UNCHANGED <<config, result, x, b, t, k, conv, local_s, total_s, red, rcvd>>

\* MPI_Recv of a buffered message: blocks until the first message of the
\* peer is there, stores it and returns
Recv(w) ==
  /\ ~sync
  /\ pc[w] = "xchg"
  /\ CurCall(w).kind = "R"
  /\ LET c == CurCall(w) IN
       /\ chan[<<c.peer, w>>] # << >>
       /\ x' = [x EXCEPT ![w] = Store(@, c, Head(chan[<<c.peer, w>>]))]
       /\ chan' = [chan EXCEPT ![<<c.peer, w>>] = Tail(@)]
  /\ pc' = [pc EXCEPT ![w] = PcAt(calls[w], op[w] + 1)]
  /\ op' = [op EXCEPT ![w] = OpAt(calls[w], op[w] + 1)]
  /\ rcvd' = [rcvd EXCEPT ![w][CurCall(w).peer] = @ + 1]
  /\ UNCHANGED <<config, result, b, t, k, conv, local_s, total_s, red, sent>>

\* ------------------------------------------------- stencil and reduction
\* The stencil loop of jacobi_step, then in jacobi_poisson the loop that
\* computes local_s, and the worker enters MPI_Allreduce with it.
Stencil(w) ==
  /\ pc[w] = "stencil"
  /\ LET tn == JacobiT(n, m, x[w], b[w], t[w]) IN
       /\ t' = [t EXCEPT ![w] = tn]
       /\ local_s' = [local_s EXCEPT ![w] = LocalSum(n, m, x[w], tn)]
       /\ red' = [red EXCEPT ![k[w]][w] = LocalSum(n, m, x[w], tn)]
  /\ pc' = [pc EXCEPT ![w] = "inreduce"]
  /\ UNCHANGED <<config, result, op, chan, x, b, k, conv, total_s, sent, rcvd>>

\* AllreduceReturn with a slip: the call does not wait for the other workers
AllreduceReturnNoWait(w) ==
  /\ pc[w] = "inreduce"
  /\ LET total == ReduceSum(red[k[w]]) IN
       /\ total_s' = [total_s EXCEPT ![w] = total]
       /\ conv' = [conv EXCEPT ![w] = Converged(total)]
       /\ pc' = [pc EXCEPT ![w] = LoopTest(calls[w], Converged(total), k[w] + 1).pc]
       /\ op' = [op EXCEPT ![w] = LoopTest(calls[w], Converged(total), k[w] + 1).op]
  /\ k' = [k EXCEPT ![w] = @ + 1]
  /\ x' = [x EXCEPT ![w] = CopyInterior(n, m, @, t[w])]
  /\ UNCHANGED <<config, result, chan, b, t, local_s, red, sent, rcvd>>

\* AllreduceReturn with a slip: convergence is decided on local_s
AllreduceReturnLocal(w) ==
  /\ pc[w] = "inreduce"
  /\ \A v \in Workers : red[k[w]][v] # NoVal
  /\ LET total == local_s[w] IN
       /\ total_s' = [total_s EXCEPT ![w] = total]
       /\ conv' = [conv EXCEPT ![w] = Converged(total)]
       /\ pc' = [pc EXCEPT ![w] = LoopTest(calls[w], Converged(total), k[w] + 1).pc]
       /\ op' = [op EXCEPT ![w] = LoopTest(calls[w], Converged(total), k[w] + 1).op]
  /\ k' = [k EXCEPT ![w] = @ + 1]
  /\ x' = [x EXCEPT ![w] = CopyInterior(n, m, @, t[w])]
  /\ UNCHANGED <<config, result, chan, b, t, local_s, red, sent, rcvd>>

\* MPI_Allreduce returns once every worker has contributed; then
\* conv = (sqrt(total_s)<tol); k = k+1; x = t on the interior; loop test
AllreduceReturn(w) ==
  /\ pc[w] = "inreduce"
  /\ \A v \in Workers : red[k[w]][v] # NoVal
  /\ LET total == ReduceSum(red[k[w]]) IN
       /\ total_s' = [total_s EXCEPT ![w] = total]
       /\ conv' = [conv EXCEPT ![w] = Converged(total)]
       /\ pc' = [pc EXCEPT ![w] = LoopTest(calls[w], Converged(total), k[w] + 1).pc]
       /\ op' = [op EXCEPT ![w] = LoopTest(calls[w], Converged(total), k[w] + 1).op]
  /\ k' = [k EXCEPT ![w] = @ + 1]
  /\ x' = [x EXCEPT ![w] = CopyInterior(n, m, @, t[w])]
  /\ UNCHANGED <<config, result, chan, b, t, local_s, red, sent, rcvd>>

\* ------------------------------------- collection of the result: strips
\* w has left jacobi_poisson and is at its first call of the collection
AtGather(w) == pc[w] = "collect" /\ gpc[w] = "gather"

\* MPI_Send(&x[ld], n*ld, MPI_DOUBLE, 0, 0, ...): local rows 1 .. n
GatherMessage(w) ==
  [data |-> [e \in 0 .. (n * ld - 1) |-> x[w][ld + e]], it |-> k[w],
   kind |-> "gather"]

\* StoreSol with a slip: the block of a rank is stored from row next*n
StoreSolFromRow0(ss, from, msg) ==
  [idx \in SolCells |->
     LET e == idx - (from * n) * ld
     IN  IF e \in 0 .. (n * ld - 1) /\ e \in DOMAIN msg.data
         THEN msg.data[e] ELSE ss[idx]]

\* sol after MPI_Recv(&sol[(next*n+1)*ld], n*ld, MPI_DOUBLE, next, 0, ...)
\* stored the message msg
StoreSol(ss, from, msg) ==
  [idx \in SolCells |->
     LET e == idx - (from * n + 1) * ld
     IN  IF e \in 0 .. (n * ld - 1) /\ e \in DOMAIN msg.data
         THEN msg.data[e] ELSE ss[idx]]

\* Rendezvous of the MPI_Send of rank w with the MPI_Recv of rank 0
GatherRendezvous(w) ==
  /\ variant = "strip" /\ sync
  /\ w # 0 /\ AtGather(w)
  /\ AtGather(0) /\ gnext = w
  /\ sol' = StoreSol(sol, w, GatherMessage(w))
  /\ gnext' = gnext + 1
  /\ gpc' = [gpc EXCEPT ![w] = "done"]
  /\ UNCHANGED <<config, loop, chan, printed>>

\* Buffered MPI_Send of the rows of rank w to rank 0
GatherSend(w) ==
  /\ variant = "strip" /\ ~sync
  /\ w # 0 /\ AtGather(w)
  /\ chan' = [chan EXCEPT ![<<w, 0>>] = Append(@, GatherMessage(w))]
  /\ gpc' = [gpc EXCEPT ![w] = "done"]
  /\ UNCHANGED <<config, loop, gnext, sol, printed>>

\* MPI_Recv of rank 0 from rank next, of a buffered message; next++
GatherRecv(w) ==
  /\ variant = "strip" /\ ~sync
  /\ w = 0 /\ AtGather(w)
  /\ gnext < size
  /\ chan[<<gnext, 0>>] # << >>
  /\ sol' = StoreSol(sol, gnext, Head(chan[<<gnext, 0>>]))
  /\ chan' = [chan EXCEPT ![<<gnext, 0>>] = Tail(@)]
  /\ gnext' = gnext + 1
  /\ UNCHANGED <<config, loop, gpc, printed>>

\* sol after rank 0 copied its own rows: sol[i*ld+j] = x[i*ld+j]
CopyOwn(ss, xx) ==
  [idx \in SolCells |->
     IF idx \in Cells /\ IsInterior(n, m, idx) THEN xx[idx] ELSE ss[idx]]

\* the grid rank 0 writes: sol[i*ld+j] for i = 1 .. N, j = 1 .. M
OutputSol(ss) ==
  [c \in (1 .. N) \X (1 .. M) |-> ss[c[1] * ld + c[2]]]

\* After its receive loop rank 0 copies its own rows into sol and prints
Report(w) ==
  /\ variant = "strip"
  /\ w = 0 /\ AtGather(w)
  /\ gnext = size
  /\ sol' = CopyOwn(sol, x[0])
  /\ printed' = OutputSol(CopyOwn(sol, x[0]))
  /\ gpc' = [gpc EXCEPT ![w] = "done"]
  /\ UNCHANGED <<config, loop, chan, gnext>>

\* ------------------------------ collection of the result: Cartesian blocks
\* MPI_Gather on a rank other than the root: the block of the rank,
\* n rows of m values from x[1*ld+1], is handed over and the call returns
CartGather(w) ==
  /\ variant = "cart"
  /\ w # 0 /\ AtGather(w)
  /\ gpc' = [gpc EXCEPT ![w] = "done"]
  /\ UNCHANGED <<config, loop, chan, gnext, sol, printed>>

\* the receive buffer of the root: &sol[0*M+m*my_coords[0]] when
\* my_coords[1] = 1, &sol[n*M+m*my_coords[0]] otherwise
GatherBase ==
  IF CartCoords(0)[2] = 1 THEN 0 * M + m * CartCoords(0)[1]
  ELSE n * M + m * CartCoords(0)[1]

\* extent of bloque_sol = MPI_Type_vector(n, m, M, MPI_DOUBLE)
BloqueSolExtent == IF n = 0 THEN 0 ELSE (n - 1) * M + m

\* sol after the root received one bloque_sol per rank: the block of rank
\* r starts r extents after the receive buffer; row blk of it is M further
GatherSol(ss) ==
  [idx \in SolCells |->
     LET hit == {h \in Workers \X (0 .. (n - 1)) \X (0 .. (m - 1)) :
                   GatherBase + h[1] * BloqueSolExtent + h[2] * M + h[3] = idx}
     IN  IF hit = {} THEN ss[idx]
         ELSE LET h == CHOOSE h \in hit : \A g \in hit : g[1] <= h[1]
              IN  x[h[1]][(1 + h[2]) * ld + 1 + h[3]]]

\* MPI_Gather on the root returns when every block has arrived.  The type
\* bloque_sol is used without MPI_Type_commit and blocks may end beyond
\* sol: the call stores the blocks, or the run is aborted.
CartGatherRoot(w) ==
  /\ variant = "cart"
  /\ w = 0 /\ AtGather(w)
  /\ \A v \in Workers \ {0} : pc[v] = "collect" /\ gpc[v] = "done"
  /\ \/ sol' = GatherSol(sol) /\ gpc' = [gpc EXCEPT ![w] = "print"]
     \/ sol' = sol /\ gpc' = [gpc EXCEPT ![w] = "aborted"]
  /\ UNCHANGED <<config, loop, chan, gnext, printed>>

\* the values an out-of-bounds read may deliver
Junk == {0, 1}

\* the grid the root writes: ld = M; x[i*ld+j] for i = 1 .. N, j = 1 .. M,
\* read from the local array x of (n+2)*(m+2) cells; a read beyond the
\* array delivers any value
OutputX(xx, junk) ==
  [c \in (1 .. N) \X (1 .. M) |->
     IF c[1] * M + c[2] \in Cells THEN xx[c[1] * M + c[2]] ELSE junk]

CartReport(w) ==
  /\ variant = "cart"
  /\ w = 0 /\ pc[w] = "collect" /\ gpc[w] = "print"
  /\ \E junk \in Junk : printed' = OutputX(x[0], junk)
  /\ gpc' = [gpc EXCEPT ![w] = "done"]
  /\ UNCHANGED <<config, loop, chan, gnext, sol>>

\* ------------------------------------------------------ specifications
Iterate(w) ==
  \/ Rendezvous(w)
  \/ Send(w)
  \/ Recv(w)
  \/ Stencil(w)
  \/ AllreduceReturn(w)

NextStrip ==
  \E w \in Workers :
    \/ Iterate(w)
    \/ GatherRendezvous(w)
    \/ GatherSend(w)
    \/ GatherRecv(w)
    \/ Report(w)

NextCart ==
  \E w \in Workers :
    \/ Iterate(w)
    \/ CartGather(w)
    \/ CartGatherRoot(w)
    \/ CartReport(w)

Next ==
  \E w \in Workers :
    \/ Iterate(w)
    \/ GatherRendezvous(w)
    \/ GatherSend(w)
    \/ GatherRecv(w)
    \/ Report(w)
    \/ CartGather(w)
    \/ CartGatherRoot(w)
    \/ CartReport(w)

Spec == Init /\ [][Next]_vars
SpecStrip == InitStrip /\ [][NextStrip]_vars
SpecCart == InitCart /\ [][NextCart]_vars

\* ------------------------------------ argument extraction on its own
\* one process at the start of main, N and M as declared, with any
\* number of arguments of any small value
InitArgs ==
  /\ variant \in Variants
  /\ size = 1
  /\ sync = TRUE
  /\ argc \in 1 .. 3
  /\ arg1 \in (IF argc > 1 THEN (-MaxArg) .. MaxArg ELSE {0})
  /\ arg2 \in (IF argc > 2 THEN (-MaxArg) .. MaxArg ELSE {0})
  /\ N = DeclaredN
  /\ M = DeclaredM
  /\ n = 0 /\ m = 0
  /\ dims = <<0, 0>>
  /\ calls = [w \in Workers |-> << >>]
  /\ pc = [w \in Workers |-> "args"]
  /\ op = [w \in Workers |-> 0]
  /\ chan = [p \in Workers \X Workers |-> << >>]
  /\ x = [w \in Workers |-> << >>]
  /\ b = [w \in Workers |-> << >>]
  /\ t = [w \in Workers |-> << >>]
  /\ k = [w \in Workers |-> 0]
  /\ conv = [w \in Workers |-> FALSE]
  /\ local_s = [w \in Workers |-> 0]
  /\ total_s = [w \in Workers |-> 0]
  /\ red = << >>
  /\ sent = [w \in Workers |-> [v \in Workers |-> 0]]
  /\ rcvd = [w \in Workers |-> [v \in Workers |-> 0]]
  /\ gpc = [w \in Workers |-> "gather"]
  /\ gnext = 1
  /\ sol = << >>
  /\ printed = << >>

\* the two if statements of the argument extraction
ExtractArgs(w) ==
  /\ pc[w] = "args"
  /\ N' = ExtractN(argc, arg1, N)
  /\ M' = ExtractM(argc, arg2, M)
  /\ pc' = [pc EXCEPT ![w] = "parsed"]
  /\ UNCHANGED <<variant, sync, size, argc, arg1, arg2, n, m, dims, calls,
                 op, chan, x, b, t, k, conv, local_s, total_s, red, sent,
                 rcvd, result>>

NextArgs == \E w \in Workers : ExtractArgs(w)

SpecArgs == InitArgs /\ [][NextArgs]_vars

\* ===================================================================
\*                              properties
\* ===================================================================
\* no worker can take a step any more
Terminal == ~ENABLED Next

InExchange(w) == pc[w] = "xchg"

\* the worker owning the cells next to each side of the local grid of w
NbAbove(w) == IF variant = "strip"
              THEN (IF w = 0 THEN MPI_PROC_NULL ELSE w - 1)
              ELSE CartShift(w, 1, 1)
NbBelow(w) == IF variant = "strip"
              THEN (IF w = size - 1 THEN MPI_PROC_NULL ELSE w + 1)
              ELSE CartShift(w, 1, -1)
NbLeft(w)  == IF variant = "strip" THEN MPI_PROC_NULL ELSE CartShift(w, 0, -1)
NbRight(w) == IF variant = "strip" THEN MPI_PROC_NULL ELSE CartShift(w, 0, 1)
Neighbours(w) == {NbAbove(w), NbBelow(w), NbLeft(w), NbRight(w)} \ {MPI_PROC_NULL}

\* C1: strip program, sends are rendezvous: for 1, 2, 3, 4 and 8 workers no
\* run ends with a worker still inside the halo exchange, i.e. every
\* exchange that is started completes.
C1_StripExchangeCompletes ==
  (variant = "strip" /\ sync /\ Terminal) => \A w \in Workers : ~InExchange(w)

\* C2: Cartesian program, sends are rendezvous: for 1, 2, 3, 4 and 8 workers
\* no run ends with a worker inside the exchange (every worker ends in the
\* result collection, unless the single process trapped at startup), and a
\* worker inside the row exchange has completed its column exchange: it has
\* sent one column to and received one column from each horizontal neighbour
\* in this iteration.
C2_CartExchangeCompletes ==
  (variant = "cart" /\ sync) =>
    /\ Terminal => \A w \in Workers : pc[w] \in {"collect", "crashed"}
    /\ \A w \in Workers :
         (InExchange(w) /\ op[w] > Len(CartColOps(w))) =>
            \A v \in {NbLeft(w), NbRight(w)} \ {MPI_PROC_NULL} :
               sent[w][v] = k[w] + 1 /\ rcvd[w][v] = k[w] + 1

\* eight workers on the 4 x 2 grid ran to the iteration cap with rendezvous
\* sends on non-empty local grids
C2_Witness ==
  /\ variant = "cart" /\ sync /\ size = 8 /\ n >= 1 /\ m >= 1
  /\ \A w \in Workers : pc[w] = "collect" /\ k[w] = maxit

\* C3: when a worker is about to run its stencil loop, every ghost cell the
\* loop reads holds the adjacent edge cell of the current x of the worker
\* owning that side, which is in the same iteration, or 0 without neighbour.
GhostIs(w, g, nb, src) ==
  IF nb = MPI_PROC_NULL THEN x[w][g] = 0
  ELSE x[w][g] = x[nb][src] /\ k[nb] = k[w]

C3_GhostCells ==
  \A w \in Workers : pc[w] = "stencil" =>
    /\ \A j \in 1 .. m : n >= 1 =>
         /\ GhostIs(w, 0 * ld + j, NbAbove(w), n * ld + j)
         /\ GhostIs(w, (n + 1) * ld + j, NbBelow(w), 1 * ld + j)
    /\ \A i \in 1 .. n : m >= 1 =>
         /\ GhostIs(w, i * ld + 0, NbLeft(w), i * ld + m)
         /\ GhostIs(w, i * ld + (m + 1), NbRight(w), i * ld + 1)

\* a worker of the Cartesian program starts a stencil loop after the first
\* iteration with non-zero values of its neighbours in a ghost row and in a
\* ghost column
C3_Witness ==
  \E w \in Workers :
    /\ pc[w] = "stencil" /\ k[w] >= 1 /\ n >= 1 /\ m >= 1
    /\ variant = "cart"
    /\ NbAbove(w) # MPI_PROC_NULL /\ x[w][0 * ld + 1] > 0
    /\ NbLeft(w) # MPI_PROC_NULL /\ x[w][1 * ld + 0] > 0

\* ------------------------------------------- the single-worker solve
\* jacobi_poisson(N, M, x, b) run by one worker on the whole grid
ZeroGrid(nn, mm) == [idx \in CellsOf(nn, mm) |-> 0]

\* one pass of the loop body on x: the new x
RefStep(xx) ==
  CopyInterior(N, M, xx, JacobiT(N, M, xx, InitB(N, M), ZeroGrid(N, M)))

\* x of the single-worker solve after j more iterations from xx
RECURSIVE RefRun(_, _)
RefRun(j, xx) == IF j = 0 THEN xx ELSE RefRun(j - 1, RefStep(xx))

\* x at the start of iteration j (0-based) of the single-worker solve
RefX(j) == RefRun(j, ZeroGrid(N, M))

\* total_s computed in the iteration that starts from xx
ErrOf(xx) ==
  LocalSum(N, M, xx, JacobiT(N, M, xx, InitB(N, M), ZeroGrid(N, M)))

\* total_s of iteration j of the single-worker solve
RefErr(j) == ErrOf(RefX(j))

\* the number of iterations the single-worker solve runs: j are done, xx is
\* the current x and cv the current convergence flag
RECURSIVE RefStop(_, _, _)
RefStop(j, xx, cv) ==
  IF ~cv /\ j < maxit
  THEN RefStop(j + 1, RefStep(xx), Converged(ErrOf(xx)))
  ELSE j
RefIters == RefStop(0, ZeroGrid(N, M), FALSE)

\* the workers that have done kk iterations hold their strips of the
\* single-worker iterate kk and the global error of its last iteration
MatchesRef(kk) ==
  LET rx == RefX(kk)
      re == IF kk >= 1 THEN RefErr(kk - 1) ELSE 0
  IN  \A w \in Workers : k[w] = kk =>
        /\ \A i \in 1 .. n : \A j \in 1 .. M :
             x[w][i * ld + j] = rx[(w * n + i) * (M + 2) + j]
        /\ kk >= 1 => total_s[w] = re

\* the workers that left the loop did as many iterations as the single worker
StopsAsRef ==
  (\E w \in Workers : pc[w] = "collect") =>
     LET ri == RefIters IN \A w \in Workers : pc[w] = "collect" => k[w] = ri

\* C4: strip program, the worker count divides N: after every iteration each
\* worker holds its rows of the single-worker iterate and the same global
\* error, every run ends with all workers out of the loop, and they leave it
\* after as many iterations as the single worker.
C4_MatchesSingleWorker ==
  variant = "strip" =>
    /\ \A kk \in {k[w] : w \in Workers} : MatchesRef(kk)
    /\ StopsAsRef
    /\ Terminal => \A w \in Workers : pc[w] = "collect"

\* the part of C4 that holds in every state: what has been computed agrees
C4_SafetyPart ==
  variant = "strip" =>
    /\ \A kk \in {k[w] : w \in Workers} : MatchesRef(kk)
    /\ StopsAsRef

\* ------------------------------------------------------------ the loop
\* w is inside an iteration of the solve loop
InIteration(w) == pc[w] \in {"xchg", "stencil", "inreduce"}

\* C5 as stated: a worker that has begun iteration k+1 implies that the
\* reduction of iteration k has returned on every worker, i.e. every worker
\* has counted k+1 iterations as well.
C5_StrictBarrier ==
  \A w, v \in Workers : (InIteration(w) /\ k[w] >= 1) => k[v] >= k[w]

\* C5 amended: a worker that has begun iteration k+1 implies that every
\* worker has entered the reduction of iteration k: it has returned from it
\* or is still inside it.
C5_BarrierOnEntry ==
  \A w, v \in Workers :
    (InIteration(w) /\ k[w] >= 1) =>
       \/ k[v] >= k[w]
       \/ k[v] = k[w] - 1 /\ pc[v] = "inreduce"

\* a worker is inside the first call of the exchange of a later iteration
\* while another one has not yet returned from the previous reduction
C5_Witness ==
  \E w, v \in Workers :
    /\ pc[w] = "xchg" /\ k[w] >= 1
    /\ pc[v] = "inreduce" /\ k[v] = k[w] - 1

\* C6: workers that did the same number of iterations hold the same reduced
\* total and the same convergence flag, and once a worker has left the loop
\* every other worker has left it after the same iteration or is still
\* inside the last reduction: none starts a further iteration.
C6_Agreement ==
  \A w, v \in Workers :
    /\ k[w] = k[v] => (total_s[w] = total_s[v] /\ conv[w] = conv[v])
    /\ pc[w] = "collect" =>
         \/ k[v] = k[w] /\ pc[v] = "collect"
         \/ k[v] = k[w] - 1 /\ pc[v] = "inreduce"

\* a worker with a non-empty grid left the loop on convergence before the
\* cap while another worker is still inside the last reduction
C6_Witness ==
  \E w, v \in Workers :
    /\ n >= 1 /\ m >= 1
    /\ pc[w] = "collect" /\ conv[w] /\ k[w] < maxit
    /\ pc[v] = "inreduce"

\* C7: a worker is inside an iteration only if it has not seen convergence
\* (the last global error was not below the tolerance) and its counter is
\* below the cap; the counter never exceeds the cap; a worker that has seen
\* convergence or reached the cap is in the result collection.
C7_TerminationPolicy ==
  \A w \in Workers :
    /\ k[w] <= maxit
    /\ InIteration(w) =>
         /\ ~conv[w] /\ k[w] < maxit
         /\ k[w] >= 1 => ~Converged(total_s[w])
    /\ (pc[w] # "crashed" /\ (conv[w] \/ k[w] = maxit)) => pc[w] = "collect"

\* a worker with a non-empty grid reached the cap without convergence and
\* is in the result collection
C7_Witness ==
  \E w \in Workers :
    n >= 1 /\ m >= 1 /\ pc[w] = "collect" /\ k[w] = maxit /\ ~conv[w]

\* ------------------------------------------------------ the halo exchange
\* from call `from` on, the exchange of v reaches a receive from w without
\* an earlier call addressed to w
PathClear(v, w, from) ==
  \E j \in from .. Len(calls[v]) :
    /\ calls[v][j].kind = "R" /\ calls[v][j].peer = w
    /\ \A i \in from .. (j - 1) : calls[v][i].peer # w

\* C8: with rendezvous sends, no two workers are blocked in sends addressed
\* to each other, and when w is blocked in a send to v, v is in the same
\* exchange or about to enter it and reaches its receive from w without any
\* earlier call addressed to w.
C8_ReceiverReady ==
  sync => \A w, v \in Workers :
    AtCall(w, "S", v) =>
      /\ ~AtCall(v, "S", w)
      /\ \/ pc[v] = "xchg" /\ k[v] = k[w] /\ PathClear(v, w, op[v])
         \/ pc[v] = "inreduce" /\ k[v] = k[w] - 1 /\ PathClear(v, w, 1)

\* in a later iteration a worker is blocked in a send to a neighbour that is
\* inside another call of the same exchange
C8_Witness ==
  \E w, v \in Workers :
    /\ sync /\ k[w] >= 1 /\ k[v] = k[w]
    /\ AtCall(w, "S", v) /\ pc[v] = "xchg" /\ ~AtCall(v, "R", w)

\* C9: a worker that has finished the exchange of iteration k has sent
\* exactly k+1 messages to and received exactly k+1 messages from every
\* neighbour, one per iteration, none with any other worker, and no message
\* of iteration k or earlier addressed to it is in flight (none at all when
\* it starts the stencil loop); inside the exchange the counts are k or k+1
\* and after the loop they are k.
C9_ExactlyOnce ==
  \A w \in Workers : LET nbs == Neighbours(w) IN \A v \in Workers :
    LET e == IF v \in nbs THEN 1 ELSE 0 IN
      /\ pc[w] \in {"stencil", "inreduce"} =>
           /\ sent[w][v] = e * (k[w] + 1)
           /\ rcvd[w][v] = e * (k[w] + 1)
           /\ \A i \in 1 .. Len(chan[<<v, w>>]) : chan[<<v, w>>][i].it > k[w]
      /\ pc[w] = "stencil" => chan[<<v, w>>] = << >>
      /\ pc[w] = "xchg" =>
           /\ sent[w][v] \in {e * k[w], e * (k[w] + 1)}
           /\ rcvd[w][v] \in {e * k[w], e * (k[w] + 1)}
      /\ pc[w] = "collect" =>
           /\ sent[w][v] = e * k[w]
           /\ rcvd[w][v] = e * k[w]

\* with buffered sends a worker with two neighbours or more starts the
\* stencil loop of a later iteration
C9_Witness ==
  \E w \in Workers :
    ~sync /\ pc[w] = "stencil" /\ k[w] >= 1 /\ Cardinality(Neighbours(w)) >= 2

\* C10: a step in which a call of a halo exchange returns changes no cell
\* of b or t and no interior cell of x, on any worker.
C10_ExchangeFrame ==
  [][(\E w \in Workers : pc[w] = "xchg" /\ (op'[w] # op[w] \/ pc'[w] # pc[w])) =>
        /\ b' = b
        /\ t' = t
        /\ \A w \in Workers : \A idx \in Interior : x'[w][idx] = x[w][idx]]_vars

\* a worker with a non-empty grid has received in a later iteration a row
\* with a non-zero value into its ghost row 0
C10_Witness ==
  \E w \in Workers :
    /\ n >= 1 /\ m >= 1 /\ k[w] >= 1 /\ pc[w] \in {"xchg", "stencil"}
    /\ NbAbove(w) # MPI_PROC_NULL
    /\ rcvd[w][NbAbove(w)] = k[w] + 1
    /\ x[w][0 * ld + 1] > 0

\* ------------------------------------------------ the outer boundary
\* the cells of the local array of w on a side where w has no neighbour: the
\* whole ghost row or ghost column of that side, corners included
OuterGhost(w) ==
  (IF NbAbove(w) = MPI_PROC_NULL THEN {0 * ld + j : j \in 0 .. (m + 1)} ELSE {})
  \cup (IF NbBelow(w) = MPI_PROC_NULL
        THEN {(n + 1) * ld + j : j \in 0 .. (m + 1)} ELSE {})
  \cup (IF NbLeft(w) = MPI_PROC_NULL THEN {i * ld + 0 : i \in 0 .. (n + 1)} ELSE {})
  \cup (IF NbRight(w) = MPI_PROC_NULL
        THEN {i * ld + (m + 1) : i \in 0 .. (n + 1)} ELSE {})

\* C11: in every reachable state every ghost cell of x on a side without a
\* neighbour, the left and right ghost columns of every strip included,
\* holds 0: neither an exchange nor the copy at the end of an iteration
\* writes another value there.
C11_ZeroBoundary ==
  \A w \in Workers : \A g \in OuterGhost(w) : x[w][g] = 0

\* after the first iteration a worker with no neighbour above holds a
\* non-zero interior value next to that side and a non-zero value received
\* from its neighbour below
C11_Witness ==
  \E w \in Workers :
    /\ k[w] >= 1 /\ n >= 1 /\ m >= 1
    /\ NbAbove(w) = MPI_PROC_NULL /\ NbBelow(w) # MPI_PROC_NULL
    /\ x[w][1 * ld + 1] > 0
    /\ x[w][(n + 1) * ld + 1] > 0

\* ------------------------------------------------------ the decomposition
\* the global cells <<row, col>> of the N x M grid that the interior of the
\* local array of w stands for: the strip of rank w, or the block at the
\* Cartesian coordinates of w (coordinate 0 counts the blocks of columns
\* from the left, coordinate 1 the blocks of rows from the bottom)
Owned(w) ==
  IF variant = "strip"
  THEN {<<w * n + i, j>> : i \in 1 .. n, j \in 1 .. m}
  ELSE {<<(dims[2] - 1 - CartCoords(w)[2]) * n + i, CartCoords(w)[1] * m + j>> :
          i \in 1 .. n, j \in 1 .. m}

\* C12: the sub-grids of the workers are pairwise disjoint and, when the
\* number of workers divides the grid dimensions, their union is the whole
\* N x M grid: size * (N / size) = N in the strip program, dims[0] * m = M
\* and dims[1] * n = N in the Cartesian program.
C12_Partition ==
  /\ \A w, v \in Workers : w # v => Owned(w) \cap Owned(v) = {}
  /\ variant = "strip" /\ N % size = 0 =>
        /\ size * n = N
        /\ UNION {Owned(w) : w \in Workers} = (1 .. N) \X (1 .. M)
  /\ variant = "cart" /\ N % size = 0 /\ M % size = 0 =>
        /\ dims[1] * m = M
        /\ dims[2] * n = N
        /\ UNION {Owned(w) : w \in Workers} = (1 .. N) \X (1 .. M)

\* ------------------------------------------ collection of the result
\* the messages of the collection that rank r has sent and rank 0 has not
\* received
GatherInFlight(r) ==
  Len(SelectSeq(chan[<<r, 0>>], LAMBDA msg : msg.kind = "gather"))

\* C13: in the strip program, after the loop, rank 0 receives one block
\* from each rank 1 .. size-1 in rank order and each of these ranks sends
\* one block; the collection does not block; afterwards sol holds, for
\* every rank r and local interior cell (i, j), the final x[i][j] of rank
\* r at the global position (r*(N/size)+i, j).
C13_StripGather ==
  /\ gnext \in 1 .. size
  /\ \A r \in Workers \ {0} :
        /\ r < gnext => gpc[r] = "done" /\ GatherInFlight(r) = 0
        /\ r >= gnext =>
              GatherInFlight(r) = (IF gpc[r] = "done" THEN 1 ELSE 0)
        /\ sync => GatherInFlight(r) = 0
        /\ gpc[r] = "done" => pc[r] = "collect"
  /\ gpc[0] = "done" => gnext = size
  /\ (Terminal /\ \E w \in Workers : pc[w] = "collect") =>
        \A w \in Workers : pc[w] = "collect" /\ gpc[w] = "done"
  /\ gpc[0] = "done" =>
        \A r \in Workers : \A i \in 1 .. n : \A j \in 1 .. M :
          sol[(r * (N \div size) + i) * ld + j] = x[r][i * ld + j]

\* rank 0 has collected and printed the strips of at least three ranks,
\* with non-zero values in the strip of the last rank
C13_Witness ==
  /\ variant = "strip" /\ size >= 3 /\ n >= 1 /\ m >= 1
  /\ gpc[0] = "done"
  /\ x[size - 1][1 * ld + 1] > 0
  /\ sol[((size - 1) * n + 1) * ld + 1] = x[size - 1][1 * ld + 1]

\* C14: in the Cartesian program the grid rank 0 prints is the assembled
\* N x M solution read from the gathered buffer sol: the value printed at
\* the global position (row, col) is the final interior value of the worker
\* that owns the position.
C14_CartOutput ==
  (variant = "cart" /\ printed # << >>) =>
    \A w \in Workers : \A i \in 1 .. n : \A j \in 1 .. m :
      LET c == <<(dims[2] - 1 - CartCoords(w)[2]) * n + i,
                 CartCoords(w)[1] * m + j>>
      IN  c \in DOMAIN printed =>
            /\ printed[c] = x[w][i * ld + j]
            /\ printed[c] = sol[(c[1] - 1) * M + (c[2] - 1)]

\* ------------------------------------------------ argument extraction
\* C15: a non-positive N or M on the command line (zero or negative) is
\* replaced by the default of that dimension, a positive value is used as
\* given, and the solver never runs with a non-positive dimension.
C15_ArgFallback ==
  \A w \in Workers : pc[w] = "parsed" =>
    /\ N = (IF argc > 1 /\ arg1 > 0 THEN arg1 ELSE DeclaredN)
    /\ M = (IF argc > 2 /\ arg2 > 0 THEN arg2 ELSE DeclaredM)
    /\ N > 0 /\ M > 0

\* ------------------------------------------------- the order by role
\* the roles of the ranks of the strip program
IsEnd(w) == w = 0 \/ w = size - 1
IsEvenInterior(w) == ~IsEnd(w) /\ w % 2 = 0
IsOddInterior(w) == ~IsEnd(w) /\ w % 2 = 1

\* the calls of kind `kind` among the calls cs, as a set of positions
CallsOfKind(cs, kind) == {i \in 1 .. Len(cs) : cs[i].kind = kind}

\* C16: in the strip program an even interior rank posts all its sends
\* before any receive, an odd interior rank completes all its receives
\* before any send, and an end rank (rank 0 or size-1) performs exactly one
\* send and one receive in an exchange, both with its only neighbour.
C16_OrderByRole ==
  \A w \in Workers :
    LET S == CallsOfKind(calls[w], "S")
        R == CallsOfKind(calls[w], "R")
        nbs == Neighbours(w)
    IN  /\ IsEvenInterior(w) =>
              /\ Cardinality(S) = 2 /\ Cardinality(R) = 2
              /\ \A i \in S : \A j \in R : i < j
              /\ (pc[w] = "xchg" /\ \E v \in nbs : rcvd[w][v] = k[w] + 1) =>
                    \A u \in nbs : sent[w][u] = k[w] + 1
        /\ IsOddInterior(w) =>
              /\ Cardinality(S) = 2 /\ Cardinality(R) = 2
              /\ \A i \in R : \A j \in S : i < j
              /\ (pc[w] = "xchg" /\ \E v \in nbs : sent[w][v] = k[w] + 1) =>
                    \A u \in nbs : rcvd[w][u] = k[w] + 1
        /\ (IsEnd(w) /\ size >= 2) =>
              /\ Cardinality(nbs) = 1
              /\ Cardinality(S) = 1 /\ Cardinality(R) = 1
              /\ \A i \in S \cup R : calls[w][i].peer \in nbs
              /\ \A v \in Workers \ nbs : sent[w][v] = 0 /\ rcvd[w][v] = 0
              /\ \A v \in nbs :
                    /\ pc[w] = "xchg" =>
                          /\ sent[w][v] \in {k[w], k[w] + 1}
                          /\ rcvd[w][v] \in {k[w], k[w] + 1}
                    /\ pc[w] \in {"stencil", "inreduce"} =>
                          sent[w][v] = k[w] + 1 /\ rcvd[w][v] = k[w] + 1
                    /\ pc[w] = "collect" =>
                          sent[w][v] = k[w] /\ rcvd[w][v] = k[w]

\* after the first iteration an even interior rank has sent to both
\* neighbours and is in its first receive while an odd interior rank has
\* received from both neighbours and is in its first send, and an end
\* rank has done its send and its receive
C16_Witness ==
  \E w, v, e \in Workers :
    /\ IsEvenInterior(w) /\ pc[w] = "xchg" /\ k[w] >= 1 /\ op[w] = 3
    /\ IsOddInterior(v) /\ pc[v] = "xchg" /\ k[v] >= 1 /\ op[v] = 3
    /\ IsEnd(e) /\ pc[e] = "stencil" /\ k[e] >= 1

\* ------------------------------------------------------ the stencil
\* C17: the stencil writes only interior cells of t, each from b and the
\* four neighbours of the cell in x, the previous iterate; it does not read
\* t and leaves x and b unchanged; b never changes after initialization.
C17_PureStep ==
  [][ /\ b' = b
      /\ \A w \in Workers :
            (pc[w] = "stencil" /\ pc'[w] = "inreduce") =>
              /\ x' = x
              /\ \A idx \in Cells :
                    IF IsInterior(n, m, idx)
                    THEN 4 * t'[w][idx] =
                           b[w][idx] + x[w][idx - ld] + x[w][idx + ld]
                                     + x[w][idx - 1] + x[w][idx + 1]
                    ELSE t'[w][idx] = t[w][idx] ]_vars

\* after the first iteration a worker with a neighbour above has run the
\* stencil on a non-zero iterate with a non-zero ghost row that differs
\* from the row of t at the same place
C17_Witness ==
  \E w \in Workers :
    /\ pc[w] = "inreduce" /\ k[w] >= 1 /\ n >= 1 /\ m >= 1
    /\ NbAbove(w) # MPI_PROC_NULL
    /\ x[w][0 * ld + 1] > 0 /\ t[w][0 * ld + 1] = 0
    /\ t[w][1 * ld + 1] > x[w][1 * ld + 1]

\* ------------------------------------------------------ iteration skew
\* C18: the loop counters k of any two workers differ by at most 1, and a
\* receive of iteration k is always matched with the send of the same
\* iteration of the neighbour, although all messages carry the same tag.
C18_BoundedSkew ==
  /\ \A w, v \in Workers : k[w] - k[v] <= 1
  /\ \A w \in Workers : \A v \in Workers :
        /\ (AtCall(w, "R", v) /\ chan[<<v, w>>] # << >>) =>
              Head(chan[<<v, w>>]).it = k[w]
        /\ (sync /\ AtCall(w, "R", v) /\ AtCall(v, "S", w)) => k[v] = k[w]

\* a worker that is one iteration ahead of another worker is in a receive
\* that the message of its neighbour of the same iteration has reached
C18_Witness ==
  \E w, v, u \in Workers :
    /\ k[v] = k[u] + 1
    /\ AtCall(v, "R", w) /\ chan[<<w, v>>] # << >>
    /\ Head(chan[<<w, v>>]).it = k[v]

\* --------------------------------------------- halo and gather traffic
\* the halo messages in a queue
HaloInFlight(q) == Len(SelectSeq(q, LAMBDA msg : msg.kind = "halo"))

\* C19: in the strip program halo traffic and gather traffic never mix: a
\* receive of the collection on rank 0 is never matched by a halo message
\* and a receive of the halo exchange is never matched by a message of the
\* collection; when a worker posts its first send or receive of the
\* collection every halo message addressed to it or sent by it has been
\* received.
C19_NoMixing ==
  /\ (AtGather(0) /\ gnext < size) =>
        /\ chan[<<gnext, 0>>] # << >> => Head(chan[<<gnext, 0>>]).kind = "gather"
        /\ ~AtCall(gnext, "S", 0)
  /\ \A w, v \in Workers :
        AtCall(w, "R", v) =>
          /\ chan[<<v, w>>] # << >> => Head(chan[<<v, w>>]).kind = "halo"
          /\ ~(w = 0 /\ v # 0 /\ AtGather(v))
  /\ \A w, v \in Workers :
        pc[w] = "collect" =>
          /\ HaloInFlight(chan[<<w, v>>]) = 0
          /\ HaloInFlight(chan[<<v, w>>]) = 0
          /\ ~AtCall(v, "S", w)
          /\ sent[w][v] = rcvd[v][w]
          /\ sent[v][w] = rcvd[w][v]

\* after at least one halo exchange rank 0 is in the receive of the
\* collection from its neighbour, whose block is queued, while another
\* rank has not left the reduction
C19_Witness ==
  /\ variant = "strip" /\ size >= 3
  /\ AtGather(0) /\ gnext = 1 /\ k[0] >= 1
  /\ rcvd[0][1] >= 1
  /\ chan[<<1, 0>>] # << >> /\ Head(chan[<<1, 0>>]).kind = "gather"
  /\ \E v \in Workers : pc[v] = "inreduce"

====
